---- MODULE Spec2Model ----
(***************************************************************************)
(* Model of yamps (src/src/main.rs): the submit handler with its rate      *)
(* limiter, multipart extraction and key-generation loop, the cache        *)
(* population, the get_paste handler, the cache-size enforcer              *)
(* (clear_cache), the expiry sweeper (delete_expired) and the status codes *)
(* of Error::into_response.                                                *)
(*                                                                         *)
(* Option<T> is modelled as a sequence: None is <<>>, Some(x) is <<x>>.    *)
(* A Rust String is a record [text, cap]: text is a sequence of one-char   *)
(* strings ("CR" and "LF" stand for the two line-ending bytes), cap is     *)
(* its capacity().  Keys are 1..NumKeys: distinct 8-byte strings in        *)
(* lexicographic order.                                                    *)
(*                                                                         *)
(* Granularity.  A handler is cut where another thread can observe or      *)
(* change what it shares: the rate-limit lookup and the later insert are   *)
(* two steps; a population is the acquisition of the heap's write lock,    *)
(* then insert, push and release; an eviction is the acquisition of the    *)
(* upgradable lock, then peek, subtract, remove, upgrade, pop and release  *)
(* (the heap is visible to nobody else while the lock is held).  The scan  *)
(* of cache.data is one step.  A usize that wrapped below zero is kept as  *)
(* the negative number v - 2^64; overflow_checks chooses between the       *)
(* panicking and the wrapping build.  A retrieval that hits the cache      *)
(* holds a Ref (a read lock on the shard of cache.data) from its lookup    *)
(* until it has copied the value; the insert of a population and the       *)
(* remove of an eviction wait for it.  The keys of the model share one     *)
(* shard.  Nobody takes a plain read lock on the heap, so the upgrade at   *)
(* line 279 never waits.  A SELECT, an INSERT and the sweeper's DELETE are *)
(* one step each.  Rendering the page is taken to succeed.                 *)
(***************************************************************************)
EXTENDS Integers, Sequences, FiniteSets, Bags, TLC

\* ---------------------------------------------------------------- bounds
\* Workers serving submissions at once (NumReq in SpecRateConc, NumRateReq
\* in SpecRate, NumCacheReq in the other specifications), workers serving
\* retrievals at once, keys the generator can draw, the last readings of the
\* two clocks (MaxWall where nothing expires, MaxSweepWall where pastes do),
\* fields in a body, spare capacity of a
\* String, how far below zero a wrapped size is followed, how many records
\* the heap is followed up to, and the resolution of the monotonic clock.
NumReq == 2
NumRateReq == 1
NumCacheReq == 1
NumGet == 1
NumKeys == 2
MaxNow == 4
MaxWall == 1
MaxSweepWall == 3
MaxFields == 2
MaxSlack == 1
MaxWrapped == 8
MaxHeap == 3
TicksPerSec == 2

\* ------------------------------------------------------ program constants
\* persistence_length is one week, in the half weeks the wall clock counts.
KeyLen == 8
MiB == 1048576
KiB == 1024
DefaultSizeLimit == 1024
persistence_length == 2

Reqs == 1..NumReq
Gets == 1..NumGet
Keys == 1..NumKeys
Identities == {"ipA", "ipB"}

None == <<>>
Some(x) == <<x>>
IsSome(o) == o # <<>>
Unwrap(o) == o[1]

\* Configurations the service can be started with.
RateLimits == {None, Some(1)}
CacheSizes == {None, Some(0), Some(1)}
SizeLimits == {None}
Configs == [ratelimit : RateLimits, cache : CacheSizes, size_limit : SizeLimits]

\* Bodies of the "contents" field a client may send.
Datas == {<<>>, <<"<", "CR", "LF">>}
\* Declared Content-Length values a client may send.
Lengths == {0, DefaultSizeLimit * KiB, DefaultSizeLimit * KiB + 1}
\* One item of a multipart body: a field (with or without a name) or a
\* malformed part on which next_field() fails.
FieldItems ==
    [kind : {"field"}, name : {Some("contents")}, text : Datas]
    \cup [kind : {"field"}, name : {Some("other"), None}, text : {<<>>}]
    \cup [kind : {"error"}, name : {None}, text : {<<>>}]
RECURSIVE SeqsUpTo(_, _)
SeqsUpTo(S, n) ==
    IF n = 0 THEN {<<>>}
    ELSE LET shorter == SeqsUpTo(S, n - 1)
         IN shorter \cup {Append(q, x) : q \in {t \in shorter : Len(t) = n - 1}, x \in S}
Bodies == SeqsUpTo(FieldItems, MaxFields)

VARIABLES
    config,         \* Config (ratelimit, cache, size_limit)
    now,            \* Instant::now(), in ticks of 1/TicksPerSec second
    wall,           \* Local::now(), in half weeks
    ratelimit_map,  \* DashMap<String, Instant>
    pc,             \* position of each submit request
    req,            \* locals of each submit request
    db,             \* table pastes: key -> (contents, expires)
    data,           \* Cache.data
    expire_timestamps, \* Cache.expire_timestamps (the heap, as a bag)
    heap_lock,      \* mode in which the RwLock around the heap is held
    e_pc,           \* position of clear_cache
    size,           \* clear_cache's local size
    overflow_checks,\* build profile: usize arithmetic panics on overflow
    inserted_at,    \* for each cached key, the timestamp pushed with it
    put_in_pass,    \* a population happened since the last scan
    g_pc,           \* position of each get_paste request
    greq,           \* locals of each get_paste request
    refs,           \* get_paste requests holding a Ref into cache.data
    s_pc,           \* position of delete_expired
    s_res           \* match arm taken by the sweeper's latest DELETE

vars == <<config, now, wall, ratelimit_map, pc, req, db, data,
          expire_timestamps, heap_lock, e_pc, size, overflow_checks,
          inserted_at, put_in_pass, g_pc, greq, refs, s_pc, s_res>>

rl_vars == <<ratelimit_map>>
cache_vars == <<data, expire_timestamps, heap_lock, inserted_at, put_in_pass>>
enf_vars == <<e_pc, size>>
env_vars == <<config, overflow_checks>>
get_vars == <<g_pc, greq, refs>>
sweep_vars == <<s_pc, s_res>>

\* --------------------------------------------------------- pure functions

\* tera::escape_html, one character.
EscapeChar(c) ==
    CASE c = "&" -> <<"&", "a", "m", "p", ";">>
      [] c = "<" -> <<"&", "l", "t", ";">>
      [] c = ">" -> <<"&", "g", "t", ";">>
      [] c = "\"" -> <<"&", "q", "u", "o", "t", ";">>
      [] c = "'" -> <<"&", "#", "x", "2", "7", ";">>
      [] c = "/" -> <<"&", "#", "x", "2", "F", ";">>
      [] OTHER -> <<c>>
RECURSIVE escape_html(_)
escape_html(s) ==
    IF s = <<>> THEN <<>> ELSE EscapeChar(Head(s)) \o escape_html(Tail(s))

\* str::replace(from, to)
RECURSIVE replace(_, _, _)
replace(s, from, to) ==
    IF Len(s) < Len(from) THEN s
    ELSE IF SubSeq(s, 1, Len(from)) = from
         THEN to \o replace(SubSeq(s, Len(from) + 1, Len(s)), from, to)
         ELSE <<Head(s)>> \o replace(Tail(s), from, to)

BR == <<"<", "b", "r", ">">>
Sanitize(d) == replace(replace(escape_html(d), <<"CR", "LF">>, BR), <<"LF">>, BR)

\* The capacities the String holding a text of the given length may have:
\* an empty String has allocated nothing, another may have spare room.
Capacities(len) == IF len = 0 THEN {0} ELSE len..(len + MaxSlack)

Ok(v) == [ok |-> TRUE, val |-> v, err |-> "none"]
Err(e) == [ok |-> FALSE, val |-> <<>>, err |-> e]

\* The `while let Some(field) = multipart.next_field().await?` loop.
RECURSIVE ExtractContents(_)
ExtractContents(body) ==
    IF body = <<>> THEN Ok(<<>>)
    ELSE LET field == Head(body)
         IN IF field.kind = "error" THEN Err("Multipart")
            ELSE IF field.name = None THEN Err("FieldInvalid")
            ELSE IF Unwrap(field.name) = "contents" THEN Ok(field.text)
            ELSE ExtractContents(Tail(body))

\* Duration::from_secs(wait_time).checked_sub(elapsed).map(|x| x.as_secs())
checked_sub(a, b) == IF a >= b THEN Some(a - b) ELSE None
as_secs_rounding_up(d) == (d + TicksPerSec - 1) \div TicksPerSec
as_secs(d) == d \div TicksPerSec
TimeUntilUnlimited(wait_time, elapsed) ==
    LET d == checked_sub(wait_time * TicksPerSec, elapsed)
    IN IF IsSome(d) THEN Some(as_secs(Unwrap(d))) ELSE None

\* headers.get("X_REAL_IP") ... else addr.ip()
Remote(hdr, addr) ==
    IF IsSome(hdr)
    THEN (IF Unwrap(hdr) = "bad" THEN Err("ToStr") ELSE Ok(Unwrap(hdr)))
    ELSE Ok(addr)

\* ratelimit_map.get(&remote)
RlGetAnyRecord(map, remote) ==
    IF \E i \in DOMAIN map : IsSome(map[i])
    THEN map[CHOOSE i \in DOMAIN map : IsSome(map[i])]
    ELSE None
RlGet(map, remote) == map[remote]

\* ratelimit_map.insert(remote, Instant::now())
RlInsertIfAbsent(map, remote, t) ==
    IF IsSome(map[remote]) THEN map ELSE [map EXCEPT ![remote] = Some(t)]
RlInsert(map, remote, t) == [map EXCEPT ![remote] = Some(t)]

\* state.config.size_limit.unwrap_or(1024) * 1024
size_limit_bytes ==
    (IF IsSome(config.size_limit) THEN Unwrap(config.size_limit)
     ELSE DefaultSizeLimit) * KiB

\* max_size * 1_048_576
max_size == Unwrap(config.cache) * MiB

\* DashMap insert / remove on a map kept as a function.
MapPut(m, k, v) == [x \in DOMAIN m \cup {k} |-> IF x = k THEN v ELSE m[x]]
MapRemove(m, k) == [x \in DOMAIN m \ {k} |-> m[x]]

\* BinaryHeap<(DateTime<Local>, String)>: push, peek and pop.  The heap is a
\* max-heap on the derived tuple order.
TupleLe(x, y) == x[1] < y[1] \/ (x[1] = y[1] /\ x[2] <= y[2])
HeapPush(h, x) == h (+) SetToBag({x})
HeapPeek(h) == CHOOSE x \in BagToSet(h) : \A y \in BagToSet(h) : TupleLe(y, x)
HeapPopOldest(h) ==
    h (-) SetToBag({CHOOSE x \in BagToSet(h) : \A y \in BagToSet(h) : TupleLe(x, y)})
HeapPop(h) == h (-) SetToBag({HeapPeek(h)})

\* for item in cache.data.iter() { size += item.value().capacity() }
RECURSIVE SumCapOver(_, _)
SumCapOver(m, ks) ==
    IF ks = {} THEN 0
    ELSE LET k == CHOOSE x \in ks : TRUE
         IN m[k].cap + SumCapOver(m, ks \ {k})
SumCap(m) == SumCapOver(m, DOMAIN m)

\* item.1.capacity(): the key is a clone, so its capacity is its length.
KeyCapacity(k) == KeyLen

\* The sum of the byte lengths of the cached contents.
RECURSIVE SumLenOver(_, _)
SumLenOver(m, ks) ==
    IF ks = {} THEN 0
    ELSE LET k == CHOOSE x \in ks : TRUE
         IN Len(m[k].text) + SumLenOver(m, ks \ {k})
TrueSize(m) == SumLenOver(m, DOMAIN m)

\* usize arithmetic.  A usize that has wrapped below zero is kept as the
\* negative integer v - 2^64, so it compares above every in-range value.
UsizeGt(a, b) == a < 0 \/ a > b
UsizeGe(a, b) == a < 0 \/ a >= b
UsizeUnderflows(a, b) == a >= 0 /\ a < b

\* ------------------------------------------------------------------ state

\* The locals of a submit request.  `at` is the instant of its rate-limit
\* lookup, `allowed` whether the lookup let the request through, `had`
\* whether the identity of a rejected request had a record and `elapsed` the
\* age of that record,
\* `no_contents` whether its body had no field named contents, `last_insert`
\* the outcome of its latest INSERT, `res` and `secs` its response.
NoReq == [remote |-> "", at |-> 0, had |-> FALSE, elapsed |-> 0,
          allowed |-> FALSE, no_contents |-> FALSE,
          contents |-> [text |-> <<>>, cap |-> 0],
          expires |-> 0, key |-> 0, last_insert |-> "none",
          res |-> "none", secs |-> 0]

\* The locals of a get_paste request: the key asked for, the contents found,
\* where they were found ("cache" or "store"), and the response: its outcome
\* and its HTTP status.
NoGet == [id |-> 0, contents |-> <<>>, via |-> "none", res |-> "none",
          status |-> 0]

\* What is left of a request once its handler has returned with res.
Returned(locals, res) ==
    [NoReq EXCEPT !.res = res, !.secs = locals.secs, !.had = locals.had,
                  !.elapsed = locals.elapsed,
                  !.no_contents = locals.no_contents,
                  !.last_insert = locals.last_insert]

Init ==
    /\ config \in Configs
    /\ overflow_checks \in BOOLEAN
    /\ now = 0
    /\ wall = 0
    /\ ratelimit_map = [i \in Identities |-> None]
    /\ pc = [r \in Reqs |-> "idle"]
    /\ req = [r \in Reqs |-> NoReq]
    /\ db = <<>>
    /\ data = <<>>
    /\ expire_timestamps = EmptyBag
    /\ heap_lock = "free"
    /\ e_pc = "start"
    /\ size = 0
    /\ inserted_at = <<>>
    /\ put_in_pass = FALSE
    /\ g_pc = [g \in Gets |-> "idle"]
    /\ greq = [g \in Gets |-> NoGet]
    /\ refs = {}
    /\ s_pc = "tick"
    /\ s_res = "none"

\* The handler returns: the worker is free again and keeps the response.
Finish(r, locals, res) ==
    /\ pc' = [pc EXCEPT ![r] = "idle"]
    /\ req' = [req EXCEPT ![r] = Returned(locals, res)]

\* ----------------------------------------------------------------- submit

\* Lines 142-157: resolve the identity, look its record up, reject or go on.
\* hdrs are the X_REAL_IP headers and addrs the peer addresses clients use.
SubmitCheck(r, hdrs, addrs) ==
    /\ pc[r] = "idle"
    /\ UNCHANGED <<env_vars, get_vars, sweep_vars,
                   now, wall, rl_vars, db, cache_vars, enf_vars>>
    /\ IF config.ratelimit = None
       THEN /\ pc' = [pc EXCEPT ![r] = "parse"]
            /\ req' = [req EXCEPT ![r] = NoReq]
       ELSE \E hdr \in hdrs, addr \in addrs :
              LET remote == Remote(hdr, addr)
                  wait_time == Unwrap(config.ratelimit)
              IN IF ~remote.ok THEN Finish(r, NoReq, remote.err)
                 ELSE LET rl == RlGet(ratelimit_map, remote.val)
                          t == IF IsSome(rl)
                               THEN TimeUntilUnlimited(wait_time, now - Unwrap(rl))
                               ELSE None
                          seen == [NoReq EXCEPT !.remote = remote.val, !.at = now]
                          last == ratelimit_map[remote.val]
                      IN IF IsSome(t)
                         THEN Finish(r, [seen EXCEPT
                                           !.secs = Unwrap(t),
                                           !.had = IsSome(last),
                                           !.elapsed = IF IsSome(last)
                                                       THEN now - Unwrap(last)
                                                       ELSE 0],
                                     "RateLimited")
                         ELSE /\ pc' = [pc EXCEPT ![r] = "record"]
                              /\ req' = [req EXCEPT ![r] =
                                           [seen EXCEPT !.allowed = TRUE]]

\* Line 158: ratelimit_map.insert(remote, Instant::now())
SubmitRecord(r) ==
    /\ pc[r] = "record"
    /\ ratelimit_map' = RlInsert(ratelimit_map, req[r].remote, now)
    /\ pc' = [pc EXCEPT ![r] = "parse"]
    /\ UNCHANGED <<env_vars, get_vars, sweep_vars,
                   now, wall, req, db, cache_vars, enf_vars>>

\* Lines 161-177: the size check, the multipart loop, expiry and sanitising.
\* lengths are the Content-Length values and bodies the multipart bodies
\* clients send.
SubmitParse(r, lengths, bodies) ==
    /\ pc[r] = "parse"
    /\ UNCHANGED <<env_vars, get_vars, sweep_vars,
                   now, wall, rl_vars, db, cache_vars, enf_vars>>
    /\ \E length \in lengths, body \in bodies :
         IF length > size_limit_bytes
         THEN Finish(r, req[r], "PasteTooLarge")
         ELSE LET got == ExtractContents(body)
                  absent == \A i \in 1..Len(body) :
                              /\ body[i].kind = "field"
                              /\ body[i].name = Some("other")
                  parsed == [req[r] EXCEPT !.no_contents = absent]
              IN IF ~got.ok
                 THEN Finish(r, parsed, got.err)
                 ELSE \E cap \in Capacities(Len(Sanitize(got.val))) :
                        /\ pc' = [pc EXCEPT ![r] = "insert"]
                        /\ req' = [req EXCEPT ![r] =
                             [parsed EXCEPT
                                !.expires = wall + persistence_length,
                                !.contents = [text |-> Sanitize(got.val),
                                              cap |-> cap]]]

\* Lines 178-194: one iteration of the key-generation loop: `if let Ok(_)`
\* breaks with the key, every Err starts the next iteration.  store_ups says
\* whether the store may be up, down, or either at an attempt.
SubmitInsert(r, store_ups) ==
    /\ pc[r] = "insert"
    /\ UNCHANGED <<env_vars, get_vars, sweep_vars,
                   now, wall, rl_vars, cache_vars, enf_vars>>
    /\ \E id \in Keys, store_up \in store_ups :
         LET outcome == IF ~store_up THEN "other"
                        ELSE IF id \in DOMAIN db THEN "collision"
                        ELSE "ok"
             tried == [req[r] EXCEPT !.last_insert = outcome]
         IN IF outcome = "ok"
            THEN /\ db' = MapPut(db, id, [contents |-> req[r].contents.text,
                                          expires |-> req[r].expires])
                 /\ IF config.cache = None
                    THEN Finish(r, [tried EXCEPT !.key = id], "Found")
                    ELSE /\ pc' = [pc EXCEPT ![r] = "cache"]
                         /\ req' = [req EXCEPT ![r] = [tried EXCEPT !.key = id]]
            ELSE /\ db' = db
                 /\ req' = [req EXCEPT ![r] = tried]
                 /\ pc' = pc

\* Line 196: cache.expire_timestamps.write().  The heap is followed up to
\* MaxHeap records.
SubmitCacheLock(r) ==
    /\ pc[r] = "cache"
    /\ BagCardinality(expire_timestamps) < MaxHeap
    /\ heap_lock = "free"
    /\ heap_lock' = "write"
    /\ pc' = [pc EXCEPT ![r] = "put"]
    /\ UNCHANGED <<env_vars, get_vars, sweep_vars,
                   now, wall, rl_vars, req, db, data,
                   expire_timestamps, inserted_at, put_in_pass, enf_vars>>

\* Lines 197-205: insert into the map, push the record, drop the guard.
\* The insert waits until no Ref into the shard is held.
SubmitCachePut(r) ==
    /\ pc[r] = "put"
    /\ heap_lock = "write"
    /\ refs = {}
    /\ data' = MapPut(data, req[r].key, req[r].contents)
    /\ expire_timestamps' = HeapPush(expire_timestamps, <<wall, req[r].key>>)
    /\ inserted_at' = MapPut(inserted_at, req[r].key, wall)
    /\ put_in_pass' = TRUE
    /\ heap_lock' = "free"
    /\ Finish(r, req[r], "Found")
    /\ UNCHANGED <<env_vars, get_vars, sweep_vars,
                   now, wall, rl_vars, db, enf_vars>>

\* ------------------------------------------------------------ clear_cache

\* Lines 266-267: return at once without a capacity, else enter the loop.
EnforcerStartAnyway ==
    /\ e_pc = "start"
    /\ e_pc' = "scan"
    /\ UNCHANGED <<env_vars, get_vars, sweep_vars,
                   now, wall, rl_vars, pc, req, db, cache_vars, size>>
EnforcerStart ==
    /\ e_pc = "start"
    /\ e_pc' = IF config.cache = None THEN "off" ELSE "scan"
    /\ UNCHANGED <<env_vars, get_vars, sweep_vars,
                   now, wall, rl_vars, pc, req, db, cache_vars, size>>

\* Lines 270-273: sum the capacities of the cached values.
EnforcerScan ==
    /\ e_pc = "scan"
    /\ size' = SumCap(data)
    /\ put_in_pass' = FALSE
    /\ e_pc' = "while"
    /\ UNCHANGED <<env_vars, get_vars, sweep_vars,
                   now, wall, rl_vars, pc, req, db, data,
                   expire_timestamps, heap_lock, inserted_at>>

\* Lines 274-275: the loop test, then upgradable_read().  A size that has
\* wrapped is followed down to -MaxWrapped.
EnforcerWhile ==
    /\ e_pc = "while"
    /\ IF UsizeGt(size, max_size)
       THEN /\ size > -MaxWrapped
            /\ heap_lock = "free"
            /\ heap_lock' = "upgradable"
            /\ e_pc' = "peek"
       ELSE /\ heap_lock' = heap_lock
            /\ e_pc' = "sleep"
    /\ UNCHANGED <<env_vars, get_vars, sweep_vars,
                   now, wall, rl_vars, pc, req, db, data,
                   expire_timestamps, inserted_at, put_in_pass, size>>

\* Lines 276-282: peek, subtract, remove, upgrade, pop, drop the guard.
\* The remove waits until no Ref into the shard is held.
EnforcerEvict ==
    /\ e_pc = "peek"
    /\ heap_lock = "upgradable"
    /\ heap_lock' = "free"
    /\ UNCHANGED <<env_vars, get_vars, sweep_vars,
                   now, wall, rl_vars, pc, req, db, put_in_pass>>
    /\ IF expire_timestamps = EmptyBag
       THEN /\ e_pc' = "while"
            /\ UNCHANGED <<size, data, expire_timestamps, inserted_at>>
       ELSE LET item == HeapPeek(expire_timestamps)
            IN IF UsizeUnderflows(size, KeyCapacity(item[2])) /\ overflow_checks
               THEN /\ e_pc' = "panicked"
                    /\ UNCHANGED <<size, data, expire_timestamps, inserted_at>>
               ELSE /\ refs = {}
                    /\ size' = size - KeyCapacity(item[2])
                    /\ data' = MapRemove(data, item[2])
                    /\ inserted_at' = MapRemove(inserted_at, item[2])
                    /\ expire_timestamps' = HeapPop(expire_timestamps)
                    /\ e_pc' = "while"

\* Line 283: the sleep is over.
EnforcerWake ==
    /\ e_pc = "sleep"
    /\ e_pc' = "scan"
    /\ UNCHANGED <<env_vars, get_vars, sweep_vars,
                   now, wall, rl_vars, pc, req, db, cache_vars, size>>

\* -------------------------------------------------------------- get_paste

\* Lines 336-375: the HTTP status of an error response.
into_response(e) ==
    CASE e \in {"TimeError", "FieldInvalid", "Multipart"} -> 400
      [] e \in {"InternalError", "ToStr", "InvalidHeaderValue", "Sqlx",
                "TemplatingError"} -> 500
      [] e \in {"RateLimited", "PasteTooLarge", "NotFound"} -> 429

\* Line 246: StatusCode::OK
StatusOk == 200

\* The handler returns an error: the response carries into_response's status.
\* (The key is a local and is gone with the handler.)
GetFail(g, locals, e) ==
    /\ g_pc' = [g_pc EXCEPT ![g] = "idle"]
    /\ greq' = [greq EXCEPT ![g] =
                  [locals EXCEPT !.id = 0, !.res = e,
                                 !.status = into_response(e)]]

\* Lines 238-246: render the page and answer 200.
GetOk(g, locals) ==
    /\ g_pc' = [g_pc EXCEPT ![g] = "idle"]
    /\ greq' = [greq EXCEPT ![g] =
                  [locals EXCEPT !.id = 0, !.res = "Ok",
                                 !.status = StatusOk]]

\* Line 216: the scrutinee of the if let.  With a capacity configured and
\* the key cached, data.get returns a Ref (a read lock on the shard) and the
\* hit branch is entered; otherwise the else branch is, with no Ref held.
\* ids are the keys clients ask for.
GetLookup(g, ids) ==
    /\ g_pc[g] = "idle"
    /\ UNCHANGED <<env_vars, sweep_vars, now, wall, rl_vars, pc, req, db,
                   cache_vars, enf_vars>>
    /\ \E id \in ids :
         LET asked == [NoGet EXCEPT !.id = id]
         IN IF IsSome(config.cache) /\ id \in DOMAIN data
            THEN /\ refs' = refs \cup {g}
                 /\ g_pc' = [g_pc EXCEPT ![g] = "hit"]
                 /\ greq' = [greq EXCEPT ![g] = asked]
            ELSE /\ refs' = refs
                 /\ g_pc' = [g_pc EXCEPT ![g] = "select"]
                 /\ greq' = [greq EXCEPT ![g] = asked]

\* Lines 217-218 and 238-246: copy the value out of the Ref, drop the Ref,
\* answer.
GetHitRefreshing(g) ==
    /\ g_pc[g] = "hit"
    /\ refs' = refs \ {g}
    /\ expire_timestamps' = HeapPush(expire_timestamps, <<wall, greq[g].id>>)
    /\ GetOk(g, [greq[g] EXCEPT !.contents = data[greq[g].id].text,
                                !.via = "cache"])
    /\ UNCHANGED <<env_vars, sweep_vars, now, wall, rl_vars, pc, req, db,
                   data, heap_lock, inserted_at, put_in_pass, enf_vars>>
GetHitKeepingRef(g) ==
    /\ g_pc[g] = "hit"
    /\ g_pc' = [g_pc EXCEPT ![g] = "cache"]
    /\ greq' = [greq EXCEPT ![g] =
                  [greq[g] EXCEPT !.contents = data[greq[g].id].text,
                                  !.via = "cache"]]
    /\ UNCHANGED <<env_vars, sweep_vars, now, wall, rl_vars, pc, req, db,
                   cache_vars, enf_vars, refs>>
GetHit(g) ==
    /\ g_pc[g] = "hit"
    /\ refs' = refs \ {g}
    /\ GetOk(g, [greq[g] EXCEPT !.contents = data[greq[g].id].text,
                                !.via = "cache"])
    /\ UNCHANGED <<env_vars, sweep_vars, now, wall, rl_vars, pc, req, db,
                   cache_vars, enf_vars>>

\* Lines 220-232: SELECT contents FROM pastes WHERE key = $1.  store_ups says
\* whether the store may be up, down, or either.
GetSelect(g, store_ups) ==
    /\ g_pc[g] = "select"
    /\ UNCHANGED <<env_vars, sweep_vars, now, wall, rl_vars, pc, req, db,
                   cache_vars, enf_vars, refs>>
    /\ \E store_up \in store_ups :
         LET id == greq[g].id
         IN IF ~store_up THEN GetFail(g, greq[g], "Sqlx")
            ELSE IF id \notin DOMAIN db THEN GetFail(g, greq[g], "NotFound")
            ELSE LET found == [greq[g] EXCEPT !.contents = db[id].contents,
                                              !.via = "store"]
                 IN IF IsSome(config.cache)
                    THEN /\ g_pc' = [g_pc EXCEPT ![g] = "cache"]
                         /\ greq' = [greq EXCEPT ![g] = found]
                    ELSE GetOk(g, found)

\* Line 233: cache.expire_timestamps.write().  The heap is followed up to
\* MaxHeap records.
GetCacheLock(g) ==
    /\ g_pc[g] = "cache"
    /\ BagCardinality(expire_timestamps) < MaxHeap
    /\ heap_lock = "free"
    /\ heap_lock' = "write"
    /\ g_pc' = [g_pc EXCEPT ![g] = "put"]
    /\ UNCHANGED <<env_vars, sweep_vars, now, wall, rl_vars, pc, req, db,
                   data, expire_timestamps, inserted_at, put_in_pass,
                   enf_vars, greq, refs>>

\* Lines 234-246: insert a clone of the contents (its capacity is its
\* length), push the record, drop the guard, answer.  The insert waits until
\* no Ref into the shard is held.
GetCachePut(g) ==
    /\ g_pc[g] = "put"
    /\ heap_lock = "write"
    /\ refs = {}
    /\ data' = MapPut(data, greq[g].id,
                      [text |-> greq[g].contents,
                       cap |-> Len(greq[g].contents)])
    /\ expire_timestamps' = HeapPush(expire_timestamps, <<wall, greq[g].id>>)
    /\ inserted_at' = MapPut(inserted_at, greq[g].id, wall)
    /\ put_in_pass' = TRUE
    /\ heap_lock' = "free"
    /\ GetOk(g, greq[g])
    /\ UNCHANGED <<env_vars, sweep_vars, now, wall, rl_vars, pc, req, db,
                   enf_vars, refs>>

\* --------------------------------------------------------- delete_expired

\* Line 253: WHERE expires < $1
ExpiredOrDue(row, t) == row.expires <= t
Expired(row, t) == row.expires < t

\* The rows a successful DELETE leaves in the table.
Unexpired(table, t) ==
    [k \in {x \in DOMAIN table : ~Expired(table[x], t)} |-> table[k]]

\* Lines 251-259: one tick: DELETE FROM pastes WHERE expires < now; an error
\* is logged.  store_ups says whether the store may be up, down, or either.
SweepTick(store_ups) ==
    /\ s_pc = "tick"
    /\ s_pc' = "sleep"
    /\ \E store_up \in store_ups :
         IF store_up
         THEN db' = Unexpired(db, wall) /\ s_res' = "ok"
         ELSE db' = db /\ s_res' = "err"
    /\ UNCHANGED <<env_vars, get_vars, now, wall, rl_vars, pc, req,
                   cache_vars, enf_vars>>

\* Line 260: the sleep is over.
SweepWake ==
    /\ s_pc = "sleep"
    /\ s_pc' = "tick"
    /\ UNCHANGED <<env_vars, get_vars, s_res, now, wall, rl_vars, pc, req,
                   db, cache_vars, enf_vars>>

\* ------------------------------------------------------------- the clocks
TickNow ==
    /\ now < MaxNow
    /\ now' = now + 1
    /\ UNCHANGED <<env_vars, get_vars, sweep_vars,
                   wall, rl_vars, pc, req, db, cache_vars, enf_vars>>

TickWallTo(last) ==
    /\ wall < last
    /\ wall' = wall + 1
    /\ UNCHANGED <<env_vars, get_vars, sweep_vars,
                   now, rl_vars, pc, req, db, cache_vars, enf_vars>>

TickWall == TickWallTo(MaxWall)

\* --------------------------------------------------------- specifications

\* The rate limiter at work: an interval is configured, the cache is not;
\* clients send a well-formed (empty) paste or declare an oversized one.
\* SpecRate serves the requests with NumRateReq workers, SpecRateConc with
\* NumReq workers.
RateReqs == 1..NumRateReq
RateHdrs == {None} \cup {Some(i) : i \in Identities \cup {"bad"}}
RateLengths == {0, DefaultSizeLimit * KiB + 1}
RateBodies == {<<[kind |-> "field", name |-> Some("contents"), text |-> <<>>]>>}

InitRate ==
    /\ Init
    /\ config.ratelimit # None
    /\ config.cache = None
    /\ overflow_checks = FALSE

NextRate ==
    \/ \E r \in RateReqs : SubmitCheck(r, RateHdrs, Identities)
    \/ \E r \in RateReqs : SubmitRecord(r)
    \/ \E r \in RateReqs : SubmitParse(r, RateLengths, RateBodies)
    \/ \E r \in RateReqs : SubmitInsert(r, {TRUE})
    \/ EnforcerStart
    \/ TickNow

SpecRate == InitRate /\ [][NextRate]_vars

NextRateConc ==
    \/ \E r \in Reqs : SubmitCheck(r, RateHdrs, Identities)
    \/ \E r \in Reqs : SubmitRecord(r)
    \/ \E r \in Reqs : SubmitParse(r, RateLengths, RateBodies)
    \/ \E r \in Reqs : SubmitInsert(r, {TRUE})
    \/ EnforcerStart
    \/ TickNow

SpecRateConc == InitRate /\ [][NextRateConc]_vars

\* The cache at work: a capacity is configured, the rate limiter is not.
CacheReqs == 1..NumCacheReq

InitCache ==
    /\ Init
    /\ config.ratelimit = None
    /\ config.cache # None

NextCache ==
    \/ \E r \in CacheReqs : SubmitCheck(r, {None}, Identities)
    \/ \E r \in CacheReqs : SubmitParse(r, Lengths, Bodies)
    \/ \E r \in CacheReqs : SubmitInsert(r, BOOLEAN)
    \/ \E r \in CacheReqs : SubmitCacheLock(r)
    \/ \E r \in CacheReqs : SubmitCachePut(r)
    \/ EnforcerStart
    \/ EnforcerScan
    \/ EnforcerWhile
    \/ EnforcerEvict
    \/ EnforcerWake
    \/ TickWall

SpecCache == InitCache /\ [][NextCache]_vars

\* Clients send a paste in one contents field.
PasteBodies ==
    {<<[kind |-> "field", name |-> Some("contents"), text |-> d]>> : d \in Datas}

\* The service without a cache: submissions, retrievals and the start of
\* clear_cache.
InitNoCache ==
    /\ Init
    /\ config.ratelimit = None
    /\ config.cache = None
    /\ overflow_checks = FALSE

NextNoCache ==
    \/ \E r \in CacheReqs : SubmitCheck(r, {None}, Identities)
    \/ \E r \in CacheReqs : SubmitParse(r, {0}, PasteBodies)
    \/ \E r \in CacheReqs : SubmitInsert(r, BOOLEAN)
    \/ \E g \in Gets : GetLookup(g, Keys)
    \/ \E g \in Gets : GetSelect(g, BOOLEAN)
    \/ EnforcerStart

SpecNoCache == InitNoCache /\ [][NextNoCache]_vars

\* The expiry sweeper at work: submissions fill the table while the wall
\* clock runs past the expiry of the pastes.  The runtime keeps scheduling
\* the spawned task and its timer fires, so a tick and a wake-up that are
\* due do happen.
NextSweep ==
    \/ \E r \in CacheReqs : SubmitCheck(r, {None}, Identities)
    \/ \E r \in CacheReqs : SubmitParse(r, {0}, RateBodies)
    \/ \E r \in CacheReqs : SubmitInsert(r, {TRUE})
    \/ SweepTick(BOOLEAN)
    \/ SweepWake
    \/ TickWallTo(MaxSweepWall)

SpecSweep ==
    /\ InitNoCache
    /\ [][NextSweep]_vars
    /\ WF_vars(SweepTick(BOOLEAN))
    /\ WF_vars(SweepWake)

\* The cache seen by its readers: a capacity of zero is configured, so that
\* every cached paste is due for eviction; submissions and retrievals
\* populate the cache, retrievals read it, clear_cache evicts.  Clients send
\* one paste and the store is up.
ViewBodies ==
    {<<[kind |-> "field", name |-> Some("contents"), text |-> <<"<", "CR", "LF">>]>>}

InitView ==
    /\ Init
    /\ config.ratelimit = None
    /\ config.cache = Some(0)

NextView ==
    \/ \E r \in CacheReqs : SubmitCheck(r, {None}, Identities)
    \/ \E r \in CacheReqs : SubmitParse(r, {0}, ViewBodies)
    \/ \E r \in CacheReqs : SubmitInsert(r, {TRUE})
    \/ \E r \in CacheReqs : SubmitCacheLock(r)
    \/ \E r \in CacheReqs : SubmitCachePut(r)
    \/ \E g \in Gets : GetLookup(g, Keys)
    \/ \E g \in Gets : GetHit(g)
    \/ \E g \in Gets : GetSelect(g, {TRUE})
    \/ \E g \in Gets : GetCacheLock(g)
    \/ \E g \in Gets : GetCachePut(g)
    \/ EnforcerStart
    \/ EnforcerScan
    \/ EnforcerWhile
    \/ EnforcerEvict
    \/ EnforcerWake

SpecView == InitView /\ [][NextView]_vars

\* The cache and the expiry sweeper together: a capacity of 1 MiB is
\* configured (no paste of the model exceeds it, so clear_cache never evicts;
\* its scans are left out), and the wall clock runs past the expiry of the
\* pastes.
InitExpiry ==
    /\ Init
    /\ config.ratelimit = None
    /\ config.cache = Some(1)
    /\ overflow_checks = FALSE

NextExpiry ==
    \/ \E r \in CacheReqs : SubmitCheck(r, {None}, Identities)
    \/ \E r \in CacheReqs : SubmitParse(r, {0}, ViewBodies)
    \/ \E r \in CacheReqs : SubmitInsert(r, {TRUE})
    \/ \E r \in CacheReqs : SubmitCacheLock(r)
    \/ \E r \in CacheReqs : SubmitCachePut(r)
    \/ \E g \in Gets : GetLookup(g, Keys)
    \/ \E g \in Gets : GetHit(g)
    \/ \E g \in Gets : GetSelect(g, {TRUE})
    \/ \E g \in Gets : GetCacheLock(g)
    \/ \E g \in Gets : GetCachePut(g)
    \/ EnforcerStart
    \/ SweepTick({TRUE})
    \/ SweepWake
    \/ TickWallTo(MaxSweepWall)

SpecExpiry == InitExpiry /\ [][NextExpiry]_vars

\* ----------------------------------------------------------------- claims

\* The configured minimum interval, in ticks.
MinInterval == Unwrap(config.ratelimit) * TicksPerSec

Abs(x) == IF x < 0 THEN -x ELSE x

\* C1: two submissions of one identity that are in their handlers at the
\* same time are never both let through by the rate limiter when their
\* lookups are less than the minimum interval apart.
C1_AtomicCheckAndRecord ==
    \A r1, r2 \in Reqs :
        (/\ r1 # r2
         /\ req[r1].allowed /\ req[r2].allowed
         /\ req[r1].remote = req[r2].remote)
        => Abs(req[r1].at - req[r2].at) >= MinInterval

\* C2: a submission is rejected as rate-limited only when its identity has
\* a record younger than the minimum interval; with no record, or with an
\* elapsed time equal to or above the interval, it is allowed.
C2_RejectedOnlyWhenEarly ==
    \A r \in Reqs :
        req[r].res = "RateLimited"
        => (req[r].had /\ req[r].elapsed < MinInterval)

\* C3: a submission whose identity has no record in the rate-limit table is
\* never rejected as rate-limited, whatever records other identities have.
C3_NoRecordNeverRejected ==
    \A r \in Reqs : req[r].res = "RateLimited" => req[r].had

\* A request was let through while its identity had no record and another
\* identity had a record younger than the minimum interval.
C3_Witness ==
    \E r \in Reqs :
        /\ pc[r] = "record"
        /\ ratelimit_map[req[r].remote] = None
        /\ \E j \in Identities :
             /\ IsSome(ratelimit_map[j])
             /\ req[r].at >= Unwrap(ratelimit_map[j])
             /\ req[r].at - Unwrap(ratelimit_map[j]) < MinInterval

\* C4: a rejection carries the whole seconds of (interval - elapsed), rounded
\* down, and that number lies between 0 and the interval.
C4_RetryAfterIsFloor ==
    \A r \in Reqs :
        req[r].res = "RateLimited"
        => LET remaining == MinInterval - req[r].elapsed
           IN /\ req[r].secs * TicksPerSec <= remaining
              /\ remaining < (req[r].secs + 1) * TicksPerSec
              /\ req[r].secs >= 0
              /\ req[r].secs <= Unwrap(config.ratelimit)

\* A rejection whose remaining time is not a whole number of seconds.
C4_Witness ==
    \E r \in Reqs :
        /\ req[r].res = "RateLimited"
        /\ (MinInterval - req[r].elapsed) % TicksPerSec # 0

\* C5: when the enforcer finds the ordering index empty, the pass ends: its
\* next position is the sleep.
C5_EmptyIndexEndsPass ==
    [][(e_pc = "peek" /\ expire_timestamps = EmptyBag /\ e_pc' # e_pc)
       => e_pc' = "sleep"]_vars

\* C6: an eviction never removes an entry while an entry populated strictly
\* earlier stays in the cache.
C6_EarliestFirst ==
    [][\A a, b \in DOMAIN data :
          ~(/\ inserted_at[a] < inserted_at[b]
            /\ b \notin DOMAIN data'
            /\ a \in DOMAIN data')]_vars

\* C7: during an enforcement pass the tracked size is never below the sum of
\* the byte lengths of the cached contents (stated here for the passes during
\* which no population happens).
C7_TrackedNotBelowTrue ==
    (e_pc \in {"while", "peek"} /\ ~put_in_pass)
    => UsizeGe(size, TrueSize(data))

\* C8: when a pass that follows the puts ends, the byte size of the entries
\* left in the cache is at most the bound.
C8_PassEndsWithinBound ==
    (e_pc = "sleep" /\ ~put_in_pass) => TrueSize(data) <= max_size

\* C9: after an INSERT that failed with an error other than a key collision
\* the submission has stopped and reported the store error.
C9_NonCollisionErrorPropagates ==
    \A r \in Reqs :
        req[r].last_insert = "other"
        => (pc[r] = "idle" /\ req[r].res = "Sqlx")

\* C10: a submission whose body has no field named contents has failed with
\* FieldInvalid (and so has inserted nothing).
C10_MissingContentsIsFieldInvalid ==
    \A r \in Reqs :
        req[r].no_contents
        => (pc[r] = "idle" /\ req[r].res = "FieldInvalid")

\* C11: a retrieval for a key that is in neither the cache nor the store
\* ends with the NotFound outcome, and that outcome is reported with HTTP
\* status 404.
C11_NotFoundIs404 ==
    \A g \in Gets : greq[g].res = "NotFound" => greq[g].status = 404

\* C13: with no cache capacity configured the cache map and the ordering
\* index stay empty, no submission and no retrieval is ever at a population
\* step, no retrieval is served from the cache (every answered retrieval went
\* to the store), and clear_cache never gets past its start.
C13_DisabledCacheIsInert ==
    config.cache = None
    => /\ data = <<>>
       /\ expire_timestamps = EmptyBag
       /\ \A r \in Reqs : pc[r] \notin {"cache", "put"}
       /\ \A g \in Gets :
            /\ g_pc[g] \in {"idle", "select"}
            /\ greq[g].res = "Ok" => greq[g].via = "store"
            /\ greq[g].via # "cache"
       /\ e_pc \in {"start", "off"}
       /\ size = 0

\* Without a capacity a paste was submitted, a retrieval of a stored paste
\* was answered, and clear_cache has returned.
C13_Witness ==
    /\ config.cache = None
    /\ db # <<>>
    /\ \E r \in Reqs : req[r].res = "Found"
    /\ \E g \in Gets : greq[g].res = "Ok" /\ greq[g].via = "store"
    /\ e_pc = "off"

\* C19: the sweeper ticks again and again, forever, and only ever alternates
\* between a tick and a sleep: a tick, whether its DELETE succeeded or
\* failed, is followed by the sleep (never by the end of the loop, never by
\* another tick) and the sleep by a tick.  A
\* tick whose DELETE succeeded leaves in the store exactly the pastes with
\* expires >= now, one whose DELETE failed leaves the store as it was, and no
\* step removes a paste with expires >= now.
C19_SweeperTicksAndSleeps ==
    /\ [][/\ s_pc \in {"tick", "sleep"}
          /\ (s_pc = "tick" /\ s_pc' # s_pc) => s_pc' = "sleep"
          /\ (s_pc = "sleep" /\ s_pc' # s_pc) => s_pc' = "tick"
          /\ (s_pc = "tick" /\ s_pc' = "sleep" /\ s_res' = "ok")
             => db' = [k \in {x \in DOMAIN db : db[x].expires >= wall} |-> db[k]]
          /\ (s_pc = "tick" /\ s_pc' = "sleep" /\ s_res' = "err") => db' = db
          /\ \A k \in DOMAIN db :
               db[k].expires >= wall => (k \in DOMAIN db' /\ db'[k] = db[k])]_vars
    /\ []<>(s_pc = "tick")
    /\ []<>(s_pc = "sleep")

\* The sweeper sleeps after a DELETE that succeeded, and the paste that was
\* submitted is gone from the store.
C19_Witness ==
    /\ s_pc = "sleep"
    /\ s_res = "ok"
    /\ wall > persistence_length
    /\ db = <<>>
    /\ \E r \in Reqs : req[r].res = "Found"

\* A step in which the rate limiter rejects request r, and one in which it
\* stamps the record for the accepted request r.
Rejects(r) ==
    /\ pc[r] = "idle"
    /\ pc'[r] = "idle"
    /\ req'[r] # req[r]
    /\ req'[r].res = "RateLimited"
Stamps(r) == pc[r] = "record" /\ pc'[r] = "parse"

\* C18 as claimed: every write attempt of an identity that has a record
\* leaves that record at the current time, be the attempt accepted or
\* rejected.  (The identity of a rejected attempt is the one whose record has
\* the age the rejection found.)
C18_OverwrittenOnEveryAttempt ==
    [][\A r \in Reqs :
          /\ Stamps(r) => ratelimit_map'[req[r].remote] = Some(now)
          /\ Rejects(r)
             => \E i \in Identities :
                   /\ ratelimit_map[i] = Some(now - req'[r].elapsed)
                   /\ ratelimit_map'[i] = Some(now)]_vars

\* C18 amended: an accepted write attempt overwrites the record of its
\* identity, and of no other, with the current time; a rejected attempt
\* leaves the whole table as it was; nothing else changes the table.
C18_OverwrittenOnAcceptedOnly ==
    [][/\ \A r \in Reqs :
            /\ Stamps(r)
               => /\ ratelimit_map'[req[r].remote] = Some(now)
                  /\ \A i \in Identities \ {req[r].remote} :
                        ratelimit_map'[i] = ratelimit_map[i]
            /\ Rejects(r) => ratelimit_map' = ratelimit_map
       /\ ratelimit_map' # ratelimit_map => \E r \in Reqs : Stamps(r)]_vars

\* An attempt was rejected some time after its identity's record was stamped,
\* and the record still carries the old stamp.
C18_Witness ==
    \E r \in Reqs :
        /\ req[r].res = "RateLimited"
        /\ req[r].elapsed > 0
        /\ \E i \in Identities :
             /\ IsSome(ratelimit_map[i])
             /\ Unwrap(ratelimit_map[i]) < now
             /\ Unwrap(ratelimit_map[i]) + req[r].elapsed = now

\* C17: a pop lowers the tracked size by exactly the byte length of the
\* content it removed from the cache map when the popped record's key was
\* cached, and leaves the tracked size as it was when the key was not cached.
C17_PopSubtractsContentLength ==
    [][(e_pc = "peek" /\ expire_timestamps' # expire_timestamps)
       => LET k == HeapPeek(expire_timestamps)[2]
          IN size' = size - (IF k \in DOMAIN data
                             THEN Len(data[k].text) ELSE 0)]_vars

\* C15: a retrieval that hits the cache, and a retrieval for a key that is
\* in neither the cache nor the store, change neither the cache map nor the
\* ordering index (nor, so, the order of eviction) at any of their steps.
C15_ReadsLeaveCacheUnchanged ==
    [][\A g \in Gets :
          (\/ g_pc[g] = "idle" /\ g_pc'[g] \in {"hit", "select"}
           \/ g_pc[g] = "hit" /\ g_pc'[g] = "idle"
           \/ /\ g_pc[g] = "select"
              /\ g_pc'[g] = "idle"
              /\ greq'[g].res = "NotFound")
          => UNCHANGED <<data, expire_timestamps, inserted_at>>]_vars

\* A retrieval was answered from a cache that holds an entry and a record.
C15_Witness ==
    /\ \E g \in Gets : greq[g].res = "Ok" /\ greq[g].via = "cache"
    /\ data # <<>>
    /\ expire_timestamps # EmptyBag

\* The threads that take locks, and for each the locks it holds and the lock
\* it is waiting for or about to ask for: the RwLock around the heap, and
\* the lock of the shard of cache.data (the keys share one shard).
Threads ==
    {<<"submit", r>> : r \in Reqs} \cup {<<"get", g>> : g \in Gets}
    \cup {<<"clear_cache", 0>>}
HoldsHeap(t) ==
    CASE t[1] = "submit" -> pc[t[2]] = "put"
      [] t[1] = "get" -> g_pc[t[2]] = "put"
      [] OTHER -> e_pc = "peek"
WantsHeap(t) ==
    CASE t[1] = "submit" -> pc[t[2]] = "cache"
      [] t[1] = "get" -> g_pc[t[2]] = "cache"
      [] OTHER -> e_pc = "while" /\ UsizeGt(size, max_size)
HoldsShard(t) == t[1] = "get" /\ t[2] \in refs
WantsShard(t) ==
    CASE t[1] = "submit" -> pc[t[2]] = "put"
      [] t[1] = "get" -> g_pc[t[2]] = "put"
      [] OTHER -> e_pc = "peek" /\ expire_timestamps # EmptyBag
Blocked(t, u) ==
    /\ t # u
    /\ \/ WantsHeap(t) /\ HoldsHeap(u)
       \/ WantsShard(t) /\ HoldsShard(u)
RECURSIVE WaitedFor(_, _)
WaitedFor(S, n) ==
    IF n = 0 THEN S
    ELSE WaitedFor(S \cup {u \in Threads : \E t \in S : Blocked(t, u)}, n - 1)
Deadlocked ==
    \E t \in Threads :
        t \in WaitedFor({u \in Threads : Blocked(t, u)}, Cardinality(Threads))

\* C16: no set of threads waits in a cycle for the lock around the heap and
\* the locks of the map; the lock around the heap is held by exactly the
\* thread that is inside a population or an eviction; and clear_cache holds
\* no lock while it sleeps (nor anywhere outside an eviction).
C16_NoWaitCycle ==
    /\ ~Deadlocked
    /\ Cardinality({t \in Threads : HoldsHeap(t)})
         = (IF heap_lock = "free" THEN 0 ELSE 1)
    /\ e_pc # "peek" => heap_lock # "upgradable"
    /\ \A t \in Threads : HoldsShard(t) => ~WantsHeap(t) /\ ~WantsShard(t)

\* A population holds the heap's write lock and waits for the shard while a
\* retrieval holds a Ref into it.
C16_Witness ==
    \E t, u \in Threads :
        /\ Blocked(t, u)
        /\ HoldsHeap(t)
        /\ HoldsShard(u)

\* C20: whenever the lock around the heap is free, every key in the cache
\* map has at least one record in the heap.
C20_CachedKeysHaveRecords ==
    heap_lock = "free"
    => \A k \in DOMAIN data :
          \E rec \in BagToSet(expire_timestamps) : rec[2] = k

\* The lock is free, a key is cached, and the heap also holds a stale record
\* (of a key that is no longer cached).
C20_Witness ==
    /\ heap_lock = "free"
    /\ data # <<>>
    /\ \E rec \in BagToSet(expire_timestamps) : rec[2] \notin DOMAIN data

\* C12: once the sweeper has deleted a paste from the store, no retrieval by
\* its key is answered from the cache: a lookup never hits on a key that the
\* store no longer holds.
C12_SweptIsNotFound ==
    [][\A g \in Gets :
          (g_pc[g] = "idle" /\ g_pc'[g] = "hit")
          => greq'[g].id \in DOMAIN db]_vars

\* C14: a retrieval that hits the cache is answered with the content the map
\* holds for the key (the one most recently put), without a SELECT, and at
\* the moment of the hit that content is the content the store holds for the
\* key.
C14_HitReturnsStoredContent ==
    [][\A g \in Gets :
          /\ (g_pc[g] = "idle" /\ g_pc'[g] = "hit")
             => /\ greq'[g].id \in DOMAIN db
                /\ data[greq'[g].id].text = db[greq'[g].id].contents
          /\ (g_pc[g] = "hit" /\ g_pc'[g] # "hit")
             => /\ g_pc'[g] = "idle"
                /\ greq'[g].res = "Ok"
                /\ greq'[g].via = "cache"
                /\ greq'[g].contents = data[greq[g].id].text]_vars

====
